---- MODULE Spec2Model ----
(***************************************************************************)
(* pyo3-macros-backend/src/module.rs: the #[pyfn(...)] argument parser,    *)
(* the attribute extraction of a nested function, the rewriting of a       *)
(* #[pymodule] body and the generator of the PyInit_<name> entry point.    *)
(***************************************************************************)
EXTENDS Integers, Sequences, FiniteSets, TLC

\* ---------------------------------------------------------------- bounds
MaxArgs == 5        \* tokens in one #[pyfn(...)] argument list
MaxAttrs == 3       \* attributes on the function handed to get_pyfn_attr
MaxStmts == 3       \* statements in the #[pymodule] function body
MaxWrapItems == 2   \* items in the wrapper builder's token stream
MaxDocLen == 3      \* characters of the doc string handed to py_init

\* ---------------------------------------------------------------- tokens
\* "mymod" is a path, "lit_ok" a string literal whose text is an identifier,
\* "lit_bad" a string literal whose text is not one, "kw_name" the option
\* name = "other", "kw_pass_module" the option pass_module.
Tokens == {"mymod", "comma", "lit_ok", "lit_bad", "kw_name", "kw_pass_module"}

IsLitStr(t) == t \in {"lit_ok", "lit_bad"}

ArgLists == UNION {[1..n -> Tokens] : n \in 0..MaxArgs}

\* syn::Result: Ok(value) or Err(error); an Err carries nothing but the error.
NoError == [msg |-> "", span |-> 0, attr |-> 0]

\* An error message at token position span of attribute attr (0: not known
\* at this level).
Error(m, s) == [msg |-> m, span |-> s, attr |-> 0]

NoValue == [modname |-> "", options |-> [name |-> "None", pass_module |-> FALSE, deprecations |-> <<>>]]

ErrModule == "expected module as first argument to #[pyfn()]"
ErrComma == "expected comma"
ErrOption == "unexpected token in function options"
ErrName == "expected identifier in legacy name literal"
ErrOnce == "#[pyfn] may only be specified once"
ErrWrap == "function cannot be wrapped"

\* PyFunctionOptions::default()
DefaultOptions == [name |-> "None", pass_module |-> FALSE, deprecations |-> <<>>]

\* PyFunctionOptions::set_name: sets options.name, overwriting a value already
\* present.
set_name(options, name) == [ok |-> TRUE, err |-> NoError, options |-> [options EXCEPT !.name = name]]

\* The shared function-options grammar applied to input[i..]: keyword options
\* separated by commas, consuming the whole remainder; an empty remainder
\* yields the options unchanged.
RECURSIVE ParseOptions(_, _, _)
ParseOptions(input, i, options) ==
    IF i > Len(input) THEN [ok |-> TRUE, err |-> NoError, options |-> options]
    ELSE IF input[i] \notin {"kw_name", "kw_pass_module"}
    THEN [ok |-> FALSE, err |-> Error(ErrOption, i), options |-> options]
    ELSE LET set == IF input[i] = "kw_name"
                    THEN set_name(options, "other")
                    ELSE [ok |-> TRUE, err |-> NoError,
                          options |-> [options EXCEPT !.pass_module = TRUE]]
         IN  IF ~set.ok THEN set
             ELSE IF i = Len(input) THEN set
             ELSE IF input[i + 1] # "comma"
             THEN [ok |-> FALSE, err |-> Error(ErrComma, i + 1), options |-> options]
             ELSE ParseOptions(input, i + 2, set.options)

\* LitStr::parse::<Ident>() of the legacy literal at input[i].
ParseLegacyName(input, i) ==
    IF input[i] = "lit_ok"
    THEN [ok |-> TRUE, err |-> NoError, name |-> "legacy_name"]
    ELSE [ok |-> FALSE, err |-> Error(ErrName, i), name |-> "None"]

Ok(modname, options) ==
    [ok |-> TRUE, err |-> NoError, value |-> [modname |-> modname, options |-> options]]

Err(e) == [ok |-> FALSE, err |-> e, value |-> NoValue]

\* Lines 88-96 with the deprecation push left out.
MergeLegacyNoDeprecation(input, lit, parsed) ==
    IF lit = 0 THEN Ok(input[1], parsed)
    ELSE LET id == ParseLegacyName(input, lit)
         IN  IF ~id.ok THEN Err(id.err)
             ELSE LET set == set_name(parsed, id.name)
                  IN  IF ~set.ok THEN Err(set.err) ELSE Ok(input[1], set.options)

\* Lines 89-96 with the legacy literal applied only when no name is set yet.
MergeLegacyKeywordWins(input, lit, parsed) ==
    IF lit = 0 THEN Ok(input[1], parsed)
    ELSE LET id == ParseLegacyName(input, lit)
         IN  IF ~id.ok THEN Err(id.err)
             ELSE LET set == IF parsed.name = "None" THEN set_name(parsed, id.name)
                             ELSE [ok |-> TRUE, err |-> NoError, options |-> parsed]
                  IN  IF ~set.ok THEN Err(set.err)
                      ELSE Ok(input[1],
                              [set.options EXCEPT !.deprecations =
                                  Append(@, [kind |-> "PyfnNameArgument", span |-> lit])])

\* Lines 89-96: fold the legacy literal at position lit (0: none) into the
\* parsed options; both ? of line 90 return before the push of lines 91-93.
MergeLegacy(input, lit, parsed) ==
    IF lit = 0 THEN Ok(input[1], parsed)
    ELSE LET id == ParseLegacyName(input, lit)
         IN  IF ~id.ok THEN Err(id.err)
             ELSE LET set == set_name(parsed, id.name)
                  IN  IF ~set.ok THEN Err(set.err)
                      ELSE Ok(input[1],
                              [set.options EXCEPT !.deprecations =
                                  Append(@, [kind |-> "PyfnNameArgument", span |-> lit])])

\* PyFnArgs::parse with the comma after the path or the literal required to
\* be followed by more input.
ParseNoTrailingComma(input) ==
    IF Len(input) = 0 \/ input[1] # "mymod" THEN Err(Error(ErrModule, 1))
    ELSE IF Len(input) = 1 THEN Ok(input[1], DefaultOptions)
    ELSE IF input[2] # "comma" THEN Err(Error(ErrComma, 2))
    ELSE IF Len(input) = 2 THEN Err(Error(ErrOption, 3))
    ELSE LET lit == IF IsLitStr(input[3]) THEN 3 ELSE 0
         IN  IF lit # 0 /\ Len(input) > 3 /\ input[4] # "comma"
             THEN Err(Error(ErrComma, 4))
             ELSE IF lit # 0 /\ Len(input) = 4 THEN Err(Error(ErrOption, 5))
             ELSE LET from == IF lit = 0 THEN 3 ELSE 5
                      opts == ParseOptions(input, from, DefaultOptions)
                  IN  IF ~opts.ok THEN Err(opts.err)
                      ELSE MergeLegacy(input, lit, opts.options)

\* impl Parse for PyFnArgs, lines 66-97.
Parse(input) ==
    IF Len(input) = 0 \/ input[1] # "mymod" THEN Err(Error(ErrModule, 1))
    ELSE IF Len(input) = 1 THEN Ok(input[1], DefaultOptions)
    ELSE IF input[2] # "comma" THEN Err(Error(ErrComma, 2))
    ELSE LET lit == IF Len(input) >= 3 /\ IsLitStr(input[3]) THEN 3 ELSE 0
         IN  IF lit # 0 /\ Len(input) > 3 /\ input[4] # "comma"
             THEN Err(Error(ErrComma, 4))
             ELSE LET from == IF lit = 0 THEN 3 ELSE 5
                      opts == ParseOptions(input, from, DefaultOptions)
                  IN  IF ~opts.ok THEN Err(opts.err)
                      ELSE MergeLegacy(input, lit, opts.options)

\* ------------------------------------------------------------ attributes
Attr(kind, args) == [kind |-> kind, args |-> args]

PyfnOk == Attr("pyfn", <<"mymod">>)
PyfnLegacy == Attr("pyfn", <<"mymod", "comma", "lit_ok">>)
PyfnNamed == Attr("pyfn", <<"mymod", "comma", "kw_name">>)
PyfnEmpty == Attr("pyfn", <<>>)
PyfnBadName == Attr("pyfn", <<"mymod", "comma", "lit_bad">>)
Pyo3Ok == Attr("pyo3", <<"kw_pass_module">>)
Pyo3Bad == Attr("pyo3", <<"comma">>)
Doc == Attr("doc", <<>>)
Inline == Attr("inline", <<>>)

AttrShapes == {PyfnOk, PyfnLegacy, PyfnNamed, PyfnEmpty, PyfnBadName, Pyo3Ok, Pyo3Bad, Doc, Inline}

AttrLists == UNION {[1..n -> AttrShapes] : n \in 0..MaxAttrs}

NoArgs == [some |-> FALSE, value |-> NoValue]

AttrErr(e, i, left) ==
    [ok |-> FALSE, err |-> [e EXCEPT !.attr = i], some |-> FALSE, value |-> NoValue, attrs |-> left]

\* take_attributes when the extractor fails: the error is returned before the
\* filtered list is stored; the vector is left as it was or drained.
take_attributes_failed(attrs, drained) == IF drained THEN <<>> ELSE attrs

\* The extractor of lines 104-115 with the second #[pyfn] replacing the first
\* instead of being refused.
RECURSIVE TakePyfnLastWins(_, _, _, _)
TakePyfnLastWins(attrs, i, pyfn_args, kept) ==
    IF i > Len(attrs)
    THEN [ok |-> TRUE, err |-> NoError, some |-> pyfn_args.some,
          value |-> pyfn_args.value, attrs |-> kept]
    ELSE IF attrs[i].kind = "pyfn"
    THEN LET r == Parse(attrs[i].args)
         IN  IF ~r.ok THEN AttrErr(r.err, i, attrs)
             ELSE TakePyfnLastWins(attrs, i + 1, [some |-> TRUE, value |-> r.value], kept)
    ELSE TakePyfnLastWins(attrs, i + 1, pyfn_args, Append(kept, attrs[i]))

\* The extractor of lines 104-115 answering Ok(true) for every attribute.
RECURSIVE TakePyfnTakesAll(_, _, _, _)
TakePyfnTakesAll(attrs, i, pyfn_args, kept) ==
    IF i > Len(attrs)
    THEN [ok |-> TRUE, err |-> NoError, some |-> pyfn_args.some,
          value |-> pyfn_args.value, attrs |-> kept]
    ELSE IF attrs[i].kind = "pyfn"
    THEN IF pyfn_args.some THEN AttrErr(Error(ErrOnce, 0), i, attrs)
         ELSE LET r == Parse(attrs[i].args)
              IN  IF ~r.ok THEN AttrErr(r.err, i, attrs)
                  ELSE TakePyfnTakesAll(attrs, i + 1, [some |-> TRUE, value |-> r.value], kept)
    ELSE TakePyfnTakesAll(attrs, i + 1, pyfn_args, kept)

\* Lines 102-115: take_attributes runs the extractor over attrs[i..] in order;
\* an attribute the extractor handled is removed, the others are kept.
RECURSIVE TakePyfn(_, _, _, _)
TakePyfn(attrs, i, pyfn_args, kept) ==
    IF i > Len(attrs)
    THEN [ok |-> TRUE, err |-> NoError, some |-> pyfn_args.some,
          value |-> pyfn_args.value, attrs |-> kept]
    ELSE IF attrs[i].kind = "pyfn"
    THEN IF pyfn_args.some THEN AttrErr(Error(ErrOnce, 0), i, attrs)
         ELSE LET r == Parse(attrs[i].args)
              IN  IF ~r.ok THEN AttrErr(r.err, i, attrs)
                  ELSE TakePyfn(attrs, i + 1, [some |-> TRUE, value |-> r.value], kept)
    ELSE TakePyfn(attrs, i + 1, pyfn_args, Append(kept, attrs[i]))

\* PyFunctionOptions::take_pyo3_options: every #[pyo3(...)] attribute is
\* removed and its options are folded into options.
RECURSIVE take_pyo3_options(_, _, _, _)
take_pyo3_options(options, attrs, i, kept) ==
    IF i > Len(attrs)
    THEN [ok |-> TRUE, err |-> NoError, options |-> options, attrs |-> kept]
    ELSE IF attrs[i].kind = "pyo3"
    THEN LET r == ParseOptions(attrs[i].args, 1, options)
         IN  IF ~r.ok
             THEN [ok |-> FALSE, err |-> [r.err EXCEPT !.attr = i],
                   options |-> options, attrs |-> attrs]
             ELSE take_pyo3_options(r.options, attrs, i + 1, kept)
    ELSE take_pyo3_options(options, attrs, i + 1, Append(kept, attrs[i]))

\* get_pyfn_attr, lines 101-122: the result and the attribute vector it
\* leaves behind.
get_pyfn_attr(attrs, drained) ==
    LET t == TakePyfn(attrs, 1, NoArgs, <<>>)
    IN  IF ~t.ok THEN [t EXCEPT !.attrs = take_attributes_failed(attrs, drained)]
        ELSE IF ~t.some THEN t
        ELSE LET o == take_pyo3_options(t.value.options, t.attrs, 1, <<>>)
             IN  IF ~o.ok
                 THEN AttrErr(o.err, o.err.attr, take_attributes_failed(t.attrs, drained))
                 ELSE [t EXCEPT !.value.options = o.options, !.attrs = o.attrs]

\* ------------------------------------------------------------ statements
\* A statement of the module body. ident names it (its position in the
\* input); part and module are used by the generated statements only.
Stmt(kind, ident, attrs, part, module) ==
    [kind |-> kind, ident |-> ident, attrs |-> attrs, part |-> part, module |-> module]

\* Attribute lists of the nested functions of a module body.
FnAttrLists ==
    {<<>>, <<Doc>>, <<Pyo3Ok>>, <<PyfnOk>>, <<Doc, PyfnOk>>, <<PyfnOk, Inline>>,
     <<PyfnEmpty>>, <<PyfnOk, PyfnOk>>}

StmtShapes == {[kind |-> "local", attrs |-> <<>>]} \cup {[kind |-> "fn", attrs |-> a] : a \in FnAttrLists}

Bodies ==
    UNION {{[i \in 1..n |-> Stmt(f[i].kind, i, f[i].attrs, 0, "")] : f \in [1..n -> StmtShapes]} :
           n \in 0..MaxStmts}

\* impl_wrap_pyfunction: the wrapper's identifier and its token stream, n
\* items defining the wrapper, or an error when the builder refuses func.
impl_wrap_pyfunction(func, options, n, accepts) ==
    IF ~accepts
    THEN [ok |-> FALSE, err |-> Error(ErrWrap, 0), ident |-> 0, wrapped_function |-> <<>>]
    ELSE [ok |-> TRUE, err |-> NoError, ident |-> func.ident,
          wrapped_function |-> [j \in 1..n |-> Stmt("wrapper_item", func.ident, <<>>, j, "")]]

\* Lines 44-49 without the add_function call of line 47.
block_wrapper_no_add(module_name, ident, wrapped_function) == wrapped_function

\* Lines 44-49, the statements of block_wrapper's block: the wrapper's items,
\* then the add_function call on module_name.
block_wrapper(module_name, ident, wrapped_function) ==
    wrapped_function \o <<Stmt("add_function", ident, <<>>, 0, module_name)>>

\* Lines 50-53 with the generated statements pushed after the function.
extend_push_after(stmts, generated, stmt) == stmts \o <<stmt>> \o generated

\* Lines 50 and 53: stmts.extend(generated) then stmts.push(stmt.clone()).
extend_push(stmts, generated, stmt) == stmts \o generated \o <<stmt>>

\* ------------------------------------------------------------ py_init
DocChars == {"NUL", "h"}

Docs == UNION {[1..n -> DocChars] : n \in 0..MaxDocLen}

ModNames == {"demo", "m"}

\* str::ends_with('\0')
ends_with_nul(doc) == Len(doc) > 0 /\ doc[Len(doc)] = "NUL"

NoTokens == [symbol |-> "", name |-> <<>>, doc |-> <<>>, init |-> ""]

\* py_init without the assertion of line 17.
py_init_unchecked(fnname, name, doc) ==
    [panicked |-> FALSE,
     tokens |-> [symbol |-> "PyInit_" \o name, name |-> <<name, "NUL">>,
                 doc |-> doc, init |-> fnname]]

\* py_init, lines 15-33: the assertion, then the entry point's tokens.
py_init(fnname, name, doc) ==
    LET cb_name == "PyInit_" \o name
    IN  IF ~ends_with_nul(doc) THEN [panicked |-> TRUE, tokens |-> NoTokens]
        ELSE [panicked |-> FALSE,
              tokens |-> [symbol |-> cb_name, name |-> <<name, "NUL">>,
                          doc |-> doc, init |-> fnname]]

\* ------------------------------------------------------------ state
VARIABLES
    mode,      \* the function under way: "parse", "attr", "module" or "init"
    pc,        \* "start", "scan" (inside the loop of lines 39-54), "ok", "err", "panic"
    args,      \* the tokens handed to PyFnArgs::parse
    parsed,    \* its result
    attrs0,    \* the attribute vector handed to get_pyfn_attr
    attrs,     \* the vector as get_pyfn_attr leaves it
    got,       \* its result
    input,     \* func.block.stmts when process_functions_in_module was called
    block,     \* func.block.stmts
    stmts,     \* the local vector stmts
    idx,       \* the position of the loop of line 39
    error,     \* the error process_functions_in_module returned
    name,      \* py_init's module name
    doc,       \* py_init's doc string
    out        \* what py_init returned

vars == <<mode, pc, args, parsed, attrs0, attrs, got, input, block, stmts, idx, error, name, doc, out>>

NoParse == [ok |-> FALSE, err |-> NoError, value |-> NoValue]
NoGot == [ok |-> FALSE, err |-> NoError, some |-> FALSE, value |-> NoValue, attrs |-> <<>>]
NoOut == [panicked |-> FALSE, tokens |-> NoTokens]

Init ==
    /\ pc = "start"
    /\ \/ /\ mode = "parse"
          /\ args \in ArgLists
          /\ parsed = NoParse
          /\ attrs0 = <<>> /\ attrs = <<>> /\ got = NoGot
          /\ input = <<>> /\ block = <<>> /\ stmts = <<>> /\ idx = 1 /\ error = NoError
          /\ name = "" /\ doc = <<>> /\ out = NoOut
       \/ /\ mode = "attr"
          /\ attrs0 \in AttrLists
          /\ attrs = attrs0 /\ got = NoGot
          /\ args = <<>> /\ parsed = NoParse
          /\ input = <<>> /\ block = <<>> /\ stmts = <<>> /\ idx = 1 /\ error = NoError
          /\ name = "" /\ doc = <<>> /\ out = NoOut
       \/ /\ mode = "module"
          /\ input \in Bodies
          /\ block = input /\ stmts = <<>> /\ idx = 1 /\ error = NoError
          /\ args = <<>> /\ parsed = NoParse
          /\ attrs0 = <<>> /\ attrs = <<>> /\ got = NoGot
          /\ name = "" /\ doc = <<>> /\ out = NoOut
       \/ /\ mode = "init"
          /\ name \in ModNames /\ doc \in Docs /\ out = NoOut
          /\ args = <<>> /\ parsed = NoParse
          /\ attrs0 = <<>> /\ attrs = <<>> /\ got = NoGot
          /\ input = <<>> /\ block = <<>> /\ stmts = <<>> /\ idx = 1 /\ error = NoError

\* PyFnArgs::parse on args.
PyFnArgsParse ==
    /\ mode = "parse" /\ pc = "start"
    /\ parsed' = Parse(args)
    /\ pc' = IF parsed'.ok THEN "ok" ELSE "err"
    /\ UNCHANGED <<mode, args, attrs0, attrs, got, input, block, stmts, idx, error, name, doc, out>>

\* get_pyfn_attr on &mut attrs.
GetPyfnAttr ==
    /\ mode = "attr" /\ pc = "start"
    /\ \E drained \in BOOLEAN :
           /\ got' = get_pyfn_attr(attrs, drained)
           /\ attrs' = got'.attrs
           /\ pc' = IF got'.ok THEN "ok" ELSE "err"
    /\ UNCHANGED <<mode, args, parsed, attrs0, input, block, stmts, idx, error, name, doc, out>>

\* Line 37 and the entry into the loop of line 39.
Enter ==
    /\ mode = "module" /\ pc = "start"
    /\ stmts' = <<>> /\ idx' = 1 /\ pc' = "scan"
    /\ UNCHANGED <<mode, args, parsed, attrs0, attrs, got, input, block, error, name, doc, out>>

\* The loop of lines 39-54 with an error remembered and the scan going on.
ScanStmtGoesOn ==
    /\ mode = "module" /\ pc = "scan" /\ idx <= Len(block)
    /\ \E drained \in BOOLEAN, n \in 1..MaxWrapItems, accepts \in BOOLEAN :
           LET stmt == block[idx]
               g == get_pyfn_attr(stmt.attrs, drained)
               func == [stmt EXCEPT !.attrs = g.attrs]
               w == impl_wrap_pyfunction(func, g.value.options, n, accepts)
           IN  /\ idx' = idx + 1
               /\ pc' = pc
               /\ IF stmt.kind # "fn"
                  THEN /\ stmts' = Append(stmts, stmt)
                       /\ UNCHANGED <<block, error>>
                  ELSE /\ block' = [block EXCEPT ![idx] = func]
                       /\ IF ~g.ok
                          THEN error' = g.err /\ stmts' = Append(stmts, func)
                          ELSE IF ~g.some
                          THEN stmts' = Append(stmts, func) /\ UNCHANGED error
                          ELSE IF ~w.ok
                          THEN error' = w.err /\ stmts' = Append(stmts, func)
                          ELSE /\ stmts' = extend_push(stmts,
                                               block_wrapper(g.value.modname, w.ident, w.wrapped_function),
                                               func)
                               /\ UNCHANGED error
    /\ UNCHANGED <<mode, args, parsed, attrs0, attrs, got, input, name, doc, out>>

\* One iteration of the loop of lines 39-54 on block[idx], through iter_mut:
\* the function's attributes are rewritten in place, and a ? leaves the
\* function with block as it then is.
ScanStmt ==
    /\ mode = "module" /\ pc = "scan" /\ idx <= Len(block)
    /\ \E drained \in BOOLEAN, n \in 1..MaxWrapItems, accepts \in BOOLEAN :
           LET stmt == block[idx]
               g == get_pyfn_attr(stmt.attrs, drained)
               func == [stmt EXCEPT !.attrs = g.attrs]
               w == impl_wrap_pyfunction(func, g.value.options, n, accepts)
           IN  IF stmt.kind # "fn"
               THEN /\ stmts' = Append(stmts, stmt)
                    /\ idx' = idx + 1
                    /\ UNCHANGED <<block, pc, error>>
               ELSE /\ block' = [block EXCEPT ![idx] = func]
                    /\ IF ~g.ok
                       THEN /\ pc' = "err" /\ error' = g.err
                            /\ UNCHANGED <<stmts, idx>>
                       ELSE IF ~g.some
                       THEN /\ stmts' = Append(stmts, func)
                            /\ idx' = idx + 1
                            /\ UNCHANGED <<pc, error>>
                       ELSE IF ~w.ok
                       THEN /\ pc' = "err" /\ error' = w.err
                            /\ UNCHANGED <<stmts, idx>>
                       ELSE /\ stmts' = extend_push(stmts,
                                            block_wrapper(g.value.modname, w.ident, w.wrapped_function),
                                            func)
                            /\ idx' = idx + 1
                            /\ UNCHANGED <<pc, error>>
    /\ UNCHANGED <<mode, args, parsed, attrs0, attrs, got, input, name, doc, out>>

\* Lines 56-57: func.block.stmts = stmts; Ok(()).
Finish ==
    /\ mode = "module" /\ pc = "scan" /\ idx > Len(block)
    /\ block' = stmts
    /\ pc' = "ok"
    /\ UNCHANGED <<mode, args, parsed, attrs0, attrs, got, input, stmts, idx, error, name, doc, out>>

\* py_init(fnname, name, doc).
PyInit ==
    /\ mode = "init" /\ pc = "start"
    /\ out' = py_init("init_fn", name, doc)
    /\ pc' = IF out'.panicked THEN "panic" ELSE "ok"
    /\ UNCHANGED <<mode, args, parsed, attrs0, attrs, got, input, block, stmts, idx, error, name, doc>>

Next == PyFnArgsParse \/ GetPyfnAttr \/ Enter \/ ScanStmt \/ Finish \/ PyInit

Spec == Init /\ [][Next]_vars

\* ------------------------------------------------------------ properties
HasPyfn(as) == \E i \in 1..Len(as) : as[i].kind = "pyfn"

PyfnAt(as) == {i \in 1..Len(as) : as[i].kind = "pyfn"}

IsOwnAttr(a) == a.kind \in {"pyfn", "pyo3"}

IsForeignAttr(a) == ~IsOwnAttr(a)

\* The input statements that are functions carrying #[pyfn].
Annotated == {i \in 1..Len(input) : input[i].kind = "fn" /\ HasPyfn(input[i].attrs)}

\* Statement i of the input as it is expected in the output.
Stripped(i) ==
    IF i \in Annotated
    THEN [input[i] EXCEPT !.attrs = SelectSeq(input[i].attrs, IsForeignAttr)]
    ELSE input[i]

Generated(s) == s.kind \in {"wrapper_item", "add_function"}

IsOriginal(s) == ~Generated(s)

Returned == mode = "module" /\ pc = "ok"

Failed == mode = "module" /\ pc = "err"

\* The positions of the output holding the statements generated for input
\* statement i, and the position of statement i itself.
GeneratedFor(i) == {q \in 1..Len(block) : Generated(block[q]) /\ block[q].ident = i}

PositionOf(i) == CHOOSE q \in 1..Len(block) : IsOriginal(block[q]) /\ block[q].ident = i

\* C1 as stated: with exactly one annotated function, a successful call
\* yields the input plus exactly one synthesized statement (length + 1),
\* which sits immediately before the annotation-stripped function.
C1_OneStatementInserted ==
    (Returned /\ Cardinality(Annotated) = 1) =>
        LET k == CHOOSE i \in Annotated : TRUE
        IN  /\ Len(block) = Len(input) + 1
            /\ Cardinality({q \in 1..Len(block) : Generated(block[q])}) = 1
            /\ Generated(block[k])
            /\ \A i \in 1..Len(input) :
                   block[IF i < k THEN i ELSE i + 1] = Stripped(i)

\* C1 amended: with exactly one annotated function k, a successful call
\* yields the statements before k unchanged, then the n >= 1 items of the
\* wrapper, then one add_function call on the annotation's module, then the
\* annotation-stripped function k, then the statements after k unchanged; the
\* output is n + 1 statements longer than the input.
C1_RegistrationBlockInserted ==
    (Returned /\ Cardinality(Annotated) = 1) =>
        LET k == CHOOSE i \in Annotated : TRUE
            n == Len(block) - Len(input) - 1
        IN  /\ n >= 1
            /\ \A i \in 1..(k - 1) : block[i] = input[i]
            /\ \A j \in 1..n : block[k - 1 + j] = Stmt("wrapper_item", k, <<>>, j, "")
            /\ block[k + n] = Stmt("add_function", k, <<>>, 0, "mymod")
            /\ block[k + n + 1] = Stripped(k)
            /\ \A i \in (k + 1)..Len(input) : block[i + n + 1] = input[i]

C1_Witness ==
    /\ Returned /\ Cardinality(Annotated) = 1 /\ Len(input) = 3
    /\ 2 \in Annotated /\ HasPyfn(input[2].attrs) /\ Len(input[2].attrs) = 2
    /\ input[1].kind = "local" /\ Len(block) = 6

\* C2: after a successful call the input statements (annotations stripped)
\* are the output's non-generated statements in their original order; the
\* statements generated for an annotated statement A form one run ending
\* immediately before A, after every input statement that preceded A; nothing
\* is generated for a statement that is not annotated.
C2_OrderPreserved ==
    Returned =>
        /\ SelectSeq(block, IsOriginal) = [i \in 1..Len(input) |-> Stripped(i)]
        /\ \A i \in 1..Len(input) :
               IF i \in Annotated
               THEN LET p == PositionOf(i)
                    IN  /\ GeneratedFor(i) # {}
                        /\ p - 1 \in GeneratedFor(i)
                        /\ block[p - 1].kind = "add_function"
                        /\ \A q \in GeneratedFor(i) :
                               /\ q < p
                               /\ \A r \in q..(p - 1) : r \in GeneratedFor(i)
                        /\ \A j \in 1..(i - 1) :
                               \A q \in GeneratedFor(i) : PositionOf(j) < q
               ELSE GeneratedFor(i) = {}

C2_Witness ==
    /\ Returned /\ Len(input) = 3 /\ Annotated = {1, 3}
    /\ input[2].kind = "fn" /\ Len(block) = 8

\* C3: when no nested function carries #[pyfn], the call never fails and the
\* body stays the input, during the scan and after the return.
C3_IdentityWithoutPyfn ==
    (mode = "module" /\ Annotated = {}) =>
        /\ pc # "err"
        /\ block = input
        /\ (pc = "scan" => stmts = SubSeq(input, 1, idx - 1))

C3_Witness ==
    /\ Returned /\ Annotated = {} /\ Len(input) = 3
    /\ input[1].kind = "fn" /\ input[1].attrs = <<Doc>>
    /\ input[2].kind = "local"
    /\ input[3].kind = "fn" /\ input[3].attrs = <<Pyo3Ok>>

Called == mode = "attr" /\ pc # "start"

\* The first and the second #[pyfn] of attrs0.
FirstPyfn == CHOOSE i \in PyfnAt(attrs0) : \A j \in PyfnAt(attrs0) : i <= j

SecondPyfn == CHOOSE i \in PyfnAt(attrs0) \ {FirstPyfn} : \A j \in PyfnAt(attrs0) \ {FirstPyfn} : i <= j

\* C4 as stated: two or more #[pyfn] on one function always give the
\* duplicate error at the second occurrence, whatever the arguments are.
C4_AlwaysDuplicateError ==
    (Called /\ Cardinality(PyfnAt(attrs0)) >= 2) =>
        /\ ~got.ok
        /\ got.err.msg = ErrOnce
        /\ got.err.attr = SecondPyfn

\* C4 amended: two or more #[pyfn] on one function always make get_pyfn_attr
\* fail; the error is the duplicate error at the second occurrence, whatever
\* the second occurrence's arguments are, when the first occurrence's
\* arguments parse, and it is the first occurrence's own argument error, at
\* the first occurrence, when they do not.
C4_DuplicateOrFirstArgumentError ==
    (Called /\ Cardinality(PyfnAt(attrs0)) >= 2) =>
        /\ ~got.ok
        /\ pc = "err"
        /\ IF attrs0[FirstPyfn] \in {PyfnOk, PyfnLegacy, PyfnNamed}
           THEN got.err.msg = ErrOnce /\ got.err.attr = SecondPyfn
           ELSE /\ got.err.attr = FirstPyfn
                /\ got.err.msg = (IF attrs0[FirstPyfn] = PyfnEmpty THEN ErrModule ELSE ErrName)

C4_Witness ==
    /\ Called /\ attrs0 = <<PyfnOk, Doc, PyfnEmpty>>
    /\ ~got.ok /\ got.err.msg = ErrOnce /\ got.err.attr = 3

Parsed == mode = "parse" /\ pc # "start"

EndsInBareComma ==
    \/ args = <<"mymod", "comma">>
    \/ /\ Len(args) = 4 /\ args[1] = "mymod" /\ args[2] = "comma"
       /\ IsLitStr(args[3]) /\ args[4] = "comma"

\* C5 as stated: a list ending in a comma with nothing after it (after the
\* path or after the legacy literal) is rejected, and the empty list is
\* rejected with the expected-module error.
C5_TrailingCommaRejected ==
    Parsed =>
        /\ (EndsInBareComma => ~parsed.ok)
        /\ (args = <<>> => ~parsed.ok /\ parsed.err.msg = ErrModule)

\* C5 amended: Path and Path "," StringLiteral are accepted, and so are the
\* same lists followed by one comma, with the same result (the options parser
\* runs on the empty remainder): default options after the path, the legacy
\* name and its deprecation after a literal that is a name; a list that does
\* not start with a path, the empty list included, is rejected with the
\* expected-module error, and a path followed by anything but a comma is
\* rejected.
C5_TrailingCommaAccepted ==
    Parsed =>
        /\ (Len(args) = 0 \/ (Len(args) > 0 /\ args[1] # "mymod")) =>
               (~parsed.ok /\ parsed.err.msg = ErrModule)
        /\ (Len(args) >= 2 /\ args[1] = "mymod" /\ args[2] # "comma") => ~parsed.ok
        /\ (args \in {<<"mymod">>, <<"mymod", "comma">>}) =>
               (parsed.ok /\ parsed.value = [modname |-> "mymod", options |-> DefaultOptions])
        /\ (args \in {<<"mymod", "comma", "lit_ok">>, <<"mymod", "comma", "lit_ok", "comma">>}) =>
               /\ parsed.ok
               /\ parsed.value.modname = "mymod"
               /\ parsed.value.options.name = "legacy_name"
               /\ parsed.value.options.pass_module = FALSE
               /\ Len(parsed.value.options.deprecations) = 1
        /\ (args \in {<<"mymod", "comma", "lit_bad">>, <<"mymod", "comma", "lit_bad", "comma">>}) =>
               (~parsed.ok /\ parsed.err.msg = ErrName)

C5_Witness ==
    /\ Parsed /\ args = <<"mymod", "comma", "lit_ok", "comma">>
    /\ parsed.ok /\ parsed.value.options.name = "legacy_name"

\* The argument list holds a legacy positional string literal.
HasLegacyLiteral ==
    /\ Len(args) >= 3 /\ args[1] = "mymod" /\ args[2] = "comma" /\ IsLitStr(args[3])

LegacyRecord == [kind |-> "PyfnNameArgument", span |-> 3]

\* What the caller holds of the options' deprecations after the call.
ReturnedDeprecations == parsed.value.options.deprecations

\* C6 as stated: whenever the arguments hold a legacy literal, the
\* legacy-name deprecation record with the literal's location is there after
\* the call, also when the call fails.
C6_DeprecationAlways ==
    (Parsed /\ HasLegacyLiteral) => ReturnedDeprecations = <<LegacyRecord>>

\* C6 amended: when the arguments hold a legacy literal and parse succeeds,
\* exactly one legacy-name deprecation record with the literal's location is
\* in the returned options; when the literal is not a name, or anything else
\* fails, parse returns the error alone and no record; without a legacy
\* literal no record is added.
C6_DeprecationOnSuccessOnly ==
    Parsed =>
        /\ (HasLegacyLiteral /\ parsed.ok) => ReturnedDeprecations = <<LegacyRecord>>
        /\ (HasLegacyLiteral /\ args[3] = "lit_bad") => ~parsed.ok
        /\ ~parsed.ok => (parsed.value = NoValue /\ ReturnedDeprecations = <<>>)
        /\ (~HasLegacyLiteral /\ parsed.ok) => ReturnedDeprecations = <<>>

C6_Witness ==
    /\ Parsed /\ args = <<"mymod", "comma", "lit_ok", "comma", "kw_pass_module">>
    /\ parsed.ok /\ ReturnedDeprecations = <<LegacyRecord>>

\* The options after the legacy literal hold the keyword name.
HasKeywordName == \E i \in 5..Len(args) : args[i] = "kw_name"

C8_FailsAtomically ==
    Failed =>
        /\ Len(block) = Len(input)
        /\ \A j \in 1..Len(block) : IsOriginal(block[j])
        /\ \A j \in 1..Len(input) : j # idx => block[j] = input[j]

\* C9 as stated: after a grammar error in one annotation, the annotated
\* functions that follow it in the body have still been scanned (their
\* #[pyfn] has been taken).
C9_SiblingsStillScanned ==
    (Failed /\ error.msg = ErrModule) =>
        \A j \in (idx + 1)..Len(input) : j \in Annotated => ~HasPyfn(block[j].attrs)

\* C9 amended: an error in the annotation of one nested function is returned
\* to the caller at once and ends the call: the error is set only in the
\* failed state, no further statement is scanned, every statement after the
\* failing one is exactly as it was, and the body has as many statements as
\* before, none of them generated.
C9_ErrorEndsTheCall ==
    mode = "module" =>
        /\ error # NoError <=> pc = "err"
        /\ Failed =>
               /\ ~ENABLED ScanStmt /\ ~ENABLED Finish
               /\ idx \in Annotated
               /\ \A j \in (idx + 1)..Len(input) : block[j] = input[j]
               /\ Len(block) = Len(input)
               /\ \A j \in 1..Len(block) : IsOriginal(block[j])

C9_Witness ==
    /\ Failed /\ error.msg = ErrModule /\ Len(input) = 3
    /\ idx = 2 /\ 3 \in Annotated /\ block[3] = input[3]

\* C10: py_init returns tokens only for a doc string ending in NUL; for any
\* other doc string the assertion fails and nothing is returned; for a
\* NUL-terminated doc string and module name N the entry point is PyInit_N.
C10_DocMustEndWithNul ==
    (mode = "init" /\ pc # "start") =>
        IF Len(doc) > 0 /\ doc[Len(doc)] = "NUL"
        THEN /\ pc = "ok" /\ ~out.panicked
             /\ (name = "demo" => out.tokens.symbol = "PyInit_demo")
             /\ (name = "m" => out.tokens.symbol = "PyInit_m")
             /\ out.tokens.doc = doc
        ELSE pc = "panic" /\ out.panicked /\ out.tokens = NoTokens

C10_Witness ==
    /\ mode = "init" /\ pc = "panic" /\ doc = <<"NUL", "h">> /\ out.tokens = NoTokens

====
